---------------------------- MODULE Spec2Model ----------------------------
(***************************************************************************)
(* A model of the dashboard column-usage extractor                         *)
(* (extract_expressions.py) and of the per-table column lists derived by   *)
(* the query generators (column_lens.py).                                  *)
(*                                                                         *)
(* Python strings are sequences of one-character strings, so that the two  *)
(* regular expressions of the program are modelled character by character. *)
(* A Python dict is a TLA+ record; an absent key is a field that is not in *)
(* the record's DOMAIN.                                                    *)
(***************************************************************************)
EXTENDS Integers, Sequences, FiniteSets, TLC

VARIABLES
    pc,               \* position of the running call
    query,            \* argument of extract_table_name
    expression,       \* argument of extract_columns_from_expression
    ret,              \* value returned by the call under check
    data,             \* the dashboard document (dashboard_json / data)
    dataset_mapping,  \* build_dataset_mapping's result
    results,          \* the results dict of extract_expressions
    cursor,           \* the fields and filters the loop nest has yet to visit
    consumer,         \* the generator that derived table_columns_used
    table_columns_used, \* per-table used-column lists derived by a generator
    files             \* the files save_queries_to_files has written

vars == <<pc, query, expression, ret, data, dataset_mapping, results,
          cursor, consumer, table_columns_used, files>>

-----------------------------------------------------------------------------
(* Bounds of the checked instances.                                        *)

\* longest query string, in chunks, handed to extract_table_name
MaxChunks == 5
\* longest expression, in characters, handed to the column tokenizer
MaxExprLen == 6
\* most datasets of a document handed to build_dataset_mapping
MaxDatasets == 2
\* most tokens (fields, filters, empty containers) of the documents that are
\* enumerated in full; the sample documents are larger
MaxTokens == 2

-----------------------------------------------------------------------------
(* Python values.                                                          *)

\* The backtick character, which a TLA+ string cannot hold.
Tick == "BACKTICK"

\* Python's None.  Every string is a sequence of characters (one-character
\* strings and Tick), so this one-element sequence is different from every
\* string.
None == <<"None">>

\* dict.get(key, default)
Get(d, key, default) == IF key \in DOMAIN d THEN d[key] ELSE default

\* Truth value of a value that is None, a string or a list.
Truthy(v) == v # None /\ v # <<>>

\* The printable ASCII characters in code-point order (32 .. 126).
Ascii ==
    <<" ", "!", "\"", "#", "$", "%", "&", "'", "(", ")", "*", "+", ",", "-",
      ".", "/", "0", "1", "2", "3", "4", "5", "6", "7", "8", "9", ":", ";",
      "<", "=", ">", "?", "@", "A", "B", "C", "D", "E", "F", "G", "H", "I",
      "J", "K", "L", "M", "N", "O", "P", "Q", "R", "S", "T", "U", "V", "W",
      "X", "Y", "Z", "[", "\\", "]", "^", "_", Tick, "a", "b", "c", "d", "e",
      "f", "g", "h", "i", "j", "k", "l", "m", "n", "o", "p", "q", "r", "s",
      "t", "u", "v", "w", "x", "y", "z", "{", "|", "}", "~">>

\* ord(c)
Ord(c) == 31 + CHOOSE i \in 1..Len(Ascii) : Ascii[i] = c

\* s < t for two strings: Python compares code points lexicographically.
RECURSIVE StrLess(_, _)
StrLess(s, t) ==
    IF t = <<>> THEN FALSE
    ELSE IF s = <<>> THEN TRUE
    ELSE IF Ord(Head(s)) # Ord(Head(t)) THEN Ord(Head(s)) < Ord(Head(t))
    ELSE StrLess(Tail(s), Tail(t))

\* A faulty variant of Sorted: the elements in descending order.
RECURSIVE SortedDescending(_)
SortedDescending(S) ==
    IF S = {} THEN <<>>
    ELSE LET m == CHOOSE x \in S : \A y \in S \ {x} : StrLess(y, x)
         IN  <<m>> \o SortedDescending(S \ {m})

\* sorted(list(S)) for a set S of strings.
RECURSIVE Sorted(_)
Sorted(S) ==
    IF S = {} THEN <<>>
    ELSE LET m == CHOOSE x \in S : \A y \in S \ {x} : StrLess(x, y)
         IN  <<m>> \o Sorted(S \ {m})

\* ' '.join(lines)
RECURSIVE Join(_)
Join(lines) ==
    IF lines = <<>> THEN <<>>
    ELSE IF Len(lines) = 1 THEN lines[1]
    ELSE lines[1] \o <<" ">> \o Join(Tail(lines))

\* lists[1] + lists[2] + ...
RECURSIVE Concat(_)
Concat(lists) ==
    IF lists = <<>> THEN <<>> ELSE Head(lists) \o Concat(Tail(lists))

\* The sequences over S of length 0 .. n.
SeqUpTo(S, n) == UNION {[1..k -> S] : k \in 0..n}

-----------------------------------------------------------------------------
\* extract_table_name: re.search(pattern, query, re.IGNORECASE), where the
\* pattern is FROM, then \s+, then group 1: a run [a-zA-Z0-9_]+ followed by
\* any number of groups made of a dot and a run [a-zA-Z0-9_]+.

Digits == {"0", "1", "2", "3", "4", "5", "6", "7", "8", "9"}
LowerLetters ==
    {"a", "b", "c", "d", "e", "f", "g", "h", "i", "j", "k", "l", "m", "n",
     "o", "p", "q", "r", "s", "t", "u", "v", "w", "x", "y", "z"}
UpperLetters ==
    {"A", "B", "C", "D", "E", "F", "G", "H", "I", "J", "K", "L", "M", "N",
     "O", "P", "Q", "R", "S", "T", "U", "V", "W", "X", "Y", "Z"}

\* [a-zA-Z0-9_]
IsWordChar(c) == c \in LowerLetters \cup UpperLetters \cup Digits \cup {"_"}

\* \s (the ASCII white space a TLA+ string can hold)
IsSpace(c) == c \in {" ", "\t", "\n", "\r", "\f"}

\* One letter of the pattern under re.IGNORECASE.
MatchesLetter(c, upper, lower) == c = upper \/ c = lower

\* The literal FROM at position i of q.
FromAt(q, i) ==
    /\ i + 3 <= Len(q)
    /\ MatchesLetter(q[i], "F", "f")
    /\ MatchesLetter(q[i + 1], "R", "r")
    /\ MatchesLetter(q[i + 2], "O", "o")
    /\ MatchesLetter(q[i + 3], "M", "m")

\* The position after the longest run of white space that starts at i.
RECURSIVE SkipSpace(_, _)
SkipSpace(q, i) ==
    IF i <= Len(q) /\ IsSpace(q[i]) THEN SkipSpace(q, i + 1) ELSE i

\* The position after the longest run of [a-zA-Z0-9_] that starts at i.
RECURSIVE SkipWord(_, _)
SkipWord(q, i) ==
    IF i <= Len(q) /\ IsWordChar(q[i]) THEN SkipWord(q, i + 1) ELSE i

\* The dot-and-run groups from position i, greedily: the position after them.
RECURSIVE SkipDotted(_, _)
SkipDotted(q, i) ==
    IF i + 1 <= Len(q) /\ q[i] = "." /\ IsWordChar(q[i + 1])
    THEN SkipDotted(q, SkipWord(q, i + 1))
    ELSE i

\* What the pattern matches when tried at position i: None, or group 1.
\* \s+ and [a-zA-Z0-9_]+ share no character, so the greedy runs never
\* give a character back.
MatchAt(q, i) ==
    IF ~FromAt(q, i) THEN None
    ELSE LET j == SkipSpace(q, i + 4)
         IN  IF j = i + 4 \/ j > Len(q) \/ ~IsWordChar(q[j]) THEN None
             ELSE SubSeq(q, j, SkipDotted(q, SkipWord(q, j)) - 1)

\* re.search from position i on: the first position where the pattern
\* matches decides.
RECURSIVE SearchFrom(_, _)
SearchFrom(q, i) ==
    IF i > Len(q) THEN None
    ELSE IF MatchAt(q, i) # None THEN MatchAt(q, i)
    ELSE SearchFrom(q, i + 1)

\* A faulty variant of extract_table_name: the LAST match decides.
RECURSIVE SearchLastFrom(_, _)
SearchLastFrom(q, i) ==
    IF i < 1 THEN None
    ELSE IF MatchAt(q, i) # None THEN MatchAt(q, i)
    ELSE SearchLastFrom(q, i - 1)

extract_table_name_last(q) == SearchLastFrom(q, Len(q))

extract_table_name(q) == SearchFrom(q, 1)

-----------------------------------------------------------------------------
\* extract_columns_from_expression: set(re.findall(pattern, expression)),
\* where the pattern is a backtick, then group 1: one or more characters
\* other than a backtick, then a backtick.

\* The position after the longest run of non-backticks that starts at i.
RECURSIVE SkipNonTick(_, _)
SkipNonTick(e, i) ==
    IF i <= Len(e) /\ e[i] # Tick THEN SkipNonTick(e, i + 1) ELSE i

\* A faulty variant of TickMatchEnd: group 1 may be empty (zero or more characters).
TickMatchEndStar(e, i) ==
    IF i > Len(e) \/ e[i] # Tick THEN 0
    ELSE LET j == SkipNonTick(e, i + 1)
         IN  IF j > Len(e) THEN 0 ELSE j

\* The position of the closing backtick of the match that starts at i, or 0
\* when the pattern does not match there.
TickMatchEnd(e, i) ==
    IF i > Len(e) \/ e[i] # Tick THEN 0
    ELSE LET j == SkipNonTick(e, i + 1)
         IN  IF j = i + 1 \/ j > Len(e) THEN 0 ELSE j

\* re.findall from position i on: the non-overlapping matches, left to right.
RECURSIVE FindAll(_, _)
FindAll(e, i) ==
    IF i > Len(e) THEN <<>>
    ELSE LET j == TickMatchEnd(e, i)
         IN  IF j = 0 THEN FindAll(e, i + 1)
             ELSE <<SubSeq(e, i + 1, j - 1)>> \o FindAll(e, j + 1)

extract_columns_from_expression(e) ==
    LET matches == FindAll(e, 1)
    IN  {matches[k] : k \in 1..Len(matches)}

-----------------------------------------------------------------------------
(* build_dataset_mapping.                                                  *)

\* {}
EmptyDict == [k \in {} |-> k]

\* d[key] = value
DictSet(d, key, value) ==
    [k \in DOMAIN d \cup {key} |-> IF k = key THEN value ELSE d[k]]

\* The body of the loop over the datasets: the mapping after one dataset.
DatasetEntry(dataset, mapping) ==
    LET dataset_id == Get(dataset, "name", None)
        query_lines == Get(dataset, "queryLines", <<>>)
        table_name == extract_table_name(Join(query_lines))
    IN  IF Truthy(dataset_id) /\ query_lines # <<>>
        THEN IF Truthy(table_name)
             THEN DictSet(mapping, dataset_id, table_name)
             ELSE DictSet(mapping, dataset_id,
                          Get(dataset, "displayName", dataset_id))
        ELSE mapping

RECURSIVE MapDatasets(_, _)
MapDatasets(datasets, mapping) ==
    IF datasets = <<>> THEN mapping
    ELSE MapDatasets(Tail(datasets), DatasetEntry(Head(datasets), mapping))

build_dataset_mapping(d) == MapDatasets(Get(d, "datasets", <<>>), EmptyDict)

-----------------------------------------------------------------------------
(* extract_expressions: the loop nest over pages, layout items, queries,   *)
(* fields and filters.                                                     *)

UnknownPage == <<"U", "n", "k", "n", "o", "w", "n", " ", "P", "a", "g", "e">>
UnknownWidget == <<"U", "n", "k", "n", "o", "w", "n", " ", "W", "i", "d", "g", "e", "t">>
UnknownDataset == <<"U", "n", "k", "n", "o", "w", "n", " ", "D", "a", "t", "a", "s", "e", "t">>
UnknownField == <<"U", "n", "k", "n", "o", "w", "n", " ", "F", "i", "e", "l", "d">>

PagesOf(d) == Get(d, "pages", <<>>)
LayoutOf(page) == Get(page, "layout", <<>>)
WidgetOf(layout_item) == Get(layout_item, "widget", EmptyDict)
QueriesOf(widget) == Get(widget, "queries", <<>>)
QueryOf(query_item) == Get(query_item, "query", EmptyDict)
FieldsOf(q) == Get(q, "fields", <<>>)
FiltersOf(q) == Get(q, "filters", <<>>)

\* A faulty variant of QueryLeaves: the filters of a query are visited before its
\* fields.
QueryLeavesFiltersFirst(q, p, l, n) ==
    [k \in 1..Len(FiltersOf(q)) |->
        [p |-> p, l |-> l, q |-> n, kind |-> "filter", k |-> k]]
    \o [k \in 1..Len(FieldsOf(q)) |->
        [p |-> p, l |-> l, q |-> n, kind |-> "field", k |-> k]]

\* The loop over the fields of query q, then the loop over its filters: the
\* places visited, in order.
QueryLeaves(q, p, l, n) ==
    [k \in 1..Len(FieldsOf(q)) |->
        [p |-> p, l |-> l, q |-> n, kind |-> "field", k |-> k]]
    \o [k \in 1..Len(FiltersOf(q)) |->
        [p |-> p, l |-> l, q |-> n, kind |-> "filter", k |-> k]]

WidgetLeaves(widget, p, l) ==
    Concat([n \in 1..Len(QueriesOf(widget)) |->
        QueryLeaves(QueryOf(QueriesOf(widget)[n]), p, l, n)])

PageLeaves(page, p) ==
    Concat([l \in 1..Len(LayoutOf(page)) |->
        WidgetLeaves(WidgetOf(LayoutOf(page)[l]), p, l)])

\* The fields and filters the loop nest visits, in the order it visits them.
Traversal(d) ==
    Concat([p \in 1..Len(PagesOf(d)) |-> PageLeaves(PagesOf(d)[p], p)])

PageAt(d, pos) == PagesOf(d)[pos.p]
WidgetAt(d, pos) == WidgetOf(LayoutOf(PageAt(d, pos))[pos.l])
QueryAt(d, pos) == QueryOf(QueriesOf(WidgetAt(d, pos))[pos.q])
LeafAt(d, pos) ==
    IF pos.kind = "field" THEN FieldsOf(QueryAt(d, pos))[pos.k]
    ELSE FiltersOf(QueryAt(d, pos))[pos.k]

page_name(page) == Get(page, "displayName", UnknownPage)
widget_name(widget) == Get(widget, "name", UnknownWidget)
widget_title(widget) ==
    IF "spec" \in DOMAIN widget /\ "frame" \in DOMAIN Get(widget, "spec", EmptyDict)
    THEN Get(widget.spec.frame, "title", widget_name(widget))
    ELSE None
\* A faulty variant of WidgetLabel: the title is used unless it is None, also
\* when it is empty.
WidgetLabelNotNone(widget) ==
    IF widget_title(widget) # None THEN widget_title(widget)
    ELSE widget_name(widget)

\* widget_title or widget_name
WidgetLabel(widget) ==
    IF Truthy(widget_title(widget)) THEN widget_title(widget)
    ELSE widget_name(widget)
dataset_id(q) == Get(q, "datasetName", UnknownDataset)

\* A faulty variant of table_name: dataset_mapping.get(dataset_id), without
\* the dataset id as the default.
table_name_or_none(mapping, q) == Get(mapping, dataset_id(q), None)

\* dataset_mapping.get(dataset_id, dataset_id)
table_name(mapping, q) == Get(mapping, dataset_id(q), dataset_id(q))

\* The entry built for the field at pos.
FieldEntry(d, mapping, pos) ==
    LET field == LeafAt(d, pos)
    IN  [page |-> page_name(PageAt(d, pos)),
         widget |-> WidgetLabel(WidgetAt(d, pos)),
         dataset_id |-> dataset_id(QueryAt(d, pos)),
         table_name |-> table_name(mapping, QueryAt(d, pos)),
         field_name |-> Get(field, "name", UnknownField),
         expression |-> Get(field, "expression", None),
         \* list(columns): a list in no particular order, kept as the set
         columns_used |->
             extract_columns_from_expression(Get(field, "expression", None)),
         type |-> "field"]

\* The entry built for the filter at pos.
FilterEntry(d, mapping, pos) ==
    LET filter_item == LeafAt(d, pos)
    IN  [page |-> page_name(PageAt(d, pos)),
         widget |-> WidgetLabel(WidgetAt(d, pos)),
         dataset_id |-> dataset_id(QueryAt(d, pos)),
         table_name |-> table_name(mapping, QueryAt(d, pos)),
         filter_expression |-> Get(filter_item, "expression", None),
         columns_used |->
             extract_columns_from_expression(
                 Get(filter_item, "expression", None)),
         type |-> "filter"]

\* A faulty variant of AddToTable: the entry is grouped under its dataset id.
AddToTableByDataset(by_table, entry) ==
    DictSet(by_table, entry.dataset_id,
            Append(Get(by_table, entry.dataset_id, <<>>), entry))

\* results['by_table'][table_name].append(entry), by_table a defaultdict(list)
AddToTable(by_table, entry) ==
    DictSet(by_table, entry.table_name,
            Append(Get(by_table, entry.table_name, <<>>), entry))

\* A faulty variant of AddField: the expression is appended to all_filters.
AddFieldToFilters(r, entry) ==
    [r EXCEPT !.by_widget = Append(@, entry),
              !.by_table = AddToTable(@, entry),
              !.all_columns = @ \cup entry.columns_used,
              !.all_filters = Append(@, entry.expression)]

\* The four updates of results made for a field entry.
AddField(r, entry) ==
    [r EXCEPT !.by_widget = Append(@, entry),
              !.by_table = AddToTable(@, entry),
              !.all_columns = @ \cup entry.columns_used,
              !.all_expressions = Append(@, entry.expression)]

\* The four updates of results made for a filter entry.
AddFilter(r, entry) ==
    [r EXCEPT !.by_widget = Append(@, entry),
              !.by_table = AddToTable(@, entry),
              !.all_columns = @ \cup entry.columns_used,
              !.all_filters = Append(@, entry.filter_expression)]

\* A faulty variant of ExpressionGuard: only an absent expression is skipped.
ExpressionGuardNotNone(e) == e # None

\* if expression: / if filter_expression:
ExpressionGuard(e) == Truthy(e)

-----------------------------------------------------------------------------
(* The values of the variables a specification does not use.               *)

NoDocument == [datasets |-> <<>>, pages |-> <<>>]
NoResults == [by_widget |-> <<>>]

\* Lines 50-72: results after the loop body for the field at pos.
FieldStep(d, mapping, pos, r) ==
    IF ExpressionGuard(Get(LeafAt(d, pos), "expression", None))
    THEN AddField(r, FieldEntry(d, mapping, pos))
    ELSE r

\* Lines 75-95: results after the loop body for the filter at pos.
FilterStep(d, mapping, pos, r) ==
    IF ExpressionGuard(Get(LeafAt(d, pos), "expression", None))
    THEN AddFilter(r, FilterEntry(d, mapping, pos))
    ELSE r

\* A faulty variant of InitialResults: the results dict is created once and
\* used by every call, so a later call appends to what an earlier call left.
InitialResultsKept(mapping) ==
    IF "all_filters" \in DOMAIN results
    THEN [results EXCEPT
            !.all_columns = {results.all_columns[i] :
                                i \in 1..Len(results.all_columns)},
            !.dataset_mapping = mapping]
    ELSE [by_widget |-> <<>>,
          by_table |-> EmptyDict,
          all_columns |-> {},
          all_expressions |-> <<>>,
          all_filters |-> <<>>,
          dataset_mapping |-> mapping]

\* Lines 20-27: the results before the loop nest.
InitialResults(mapping) ==
    [by_widget |-> <<>>,
     by_table |-> EmptyDict,
     all_columns |-> {},
     all_expressions |-> <<>>,
     all_filters |-> <<>>,
     dataset_mapping |-> mapping]

\* Lines 97-99: all_columns becomes a sorted list, by_table a plain dict.
FinalResults(r) == [r EXCEPT !.all_columns = Sorted(@)]

\* The loop nest over the places still to visit.
RECURSIVE Harvest(_, _, _, _)
Harvest(d, mapping, leaves, r) ==
    IF leaves = <<>> THEN r
    ELSE Harvest(d, mapping, Tail(leaves),
                 IF Head(leaves).kind = "field"
                 THEN FieldStep(d, mapping, Head(leaves), r)
                 ELSE FilterStep(d, mapping, Head(leaves), r))

\* One whole call of extract_expressions.
extract_expressions(d) ==
    LET mapping == build_dataset_mapping(d)
    IN  FinalResults(Harvest(d, mapping, Traversal(d), InitialResults(mapping)))

-----------------------------------------------------------------------------
(* The documents of the checked instances.                                 *)

Ds1 == <<"d", "s", "1">>
Ds2 == <<"d", "s", "2">>
OrdersView == <<"V", "i", "e", "w">>

\* Expressions: a literal, one column, two columns (not in sorted order).
ExprLiteral == <<"1">>
ExprA == <<Tick, "a", Tick>>
ExprBA == <<Tick, "b", Tick, "*", Tick, "a", Tick>>

FieldName == <<"r", "e", "v">>

\* A field without expression, with a literal, with two columns.
FieldChoices ==
    { [name |-> FieldName],
      [name |-> FieldName, expression |-> ExprLiteral],
      [name |-> FieldName, expression |-> ExprBA] }

\* A filter with an empty expression, with a literal, with one column.
FilterChoices ==
    { [expression |-> <<>>],
      [expression |-> ExprLiteral],
      [expression |-> ExprA] }

\* A document is drawn as a sequence of tokens.  A token adds an empty page,
\* an empty layout item, or one field or filter: to the query that holds the
\* previous one ("same"), or to a new query of the same widget ("query"), of
\* a new layout item ("item") or of a new page ("page").
LeafTokens ==
    {[kind |-> "field", leaf |-> f] : f \in FieldChoices}
    \cup {[kind |-> "filter", leaf |-> f] : f \in FilterChoices}

Tokens ==
    {[brk |-> "emptypage"], [brk |-> "emptyitem"]}
    \cup {[brk |-> "same", kind |-> t.kind, leaf |-> t.leaf] : t \in LeafTokens}
    \cup {[brk |-> b, ds |-> d, kind |-> t.kind, leaf |-> t.leaf] :
             b \in {"page", "item", "query"}, d \in {Ds1, Ds2}, t \in LeafTokens}

\* The token sequences that describe a document, each document once.
ValidTokens(toks) ==
    \A k \in 1..Len(toks) :
        LET b == toks[k].brk
            prev == IF k = 1 THEN "nothing" ELSE toks[k - 1].brk
        IN  CASE b \in {"page", "emptypage"} -> TRUE
              [] b \in {"item", "emptyitem"} -> prev \notin {"nothing", "emptypage"}
              [] OTHER -> prev \notin {"nothing", "emptypage", "emptyitem"}

DigitChar(n) == Ascii[n + 17]

NewQuery(tok) ==
    [query |->
        [datasetName |-> tok.ds,
         fields |-> IF tok.kind = "field" THEN <<tok.leaf>> ELSE <<>>,
         filters |-> IF tok.kind = "filter" THEN <<tok.leaf>> ELSE <<>>]]

NewItem(p, l, queries) ==
    [widget |-> [name |-> <<"w", DigitChar(p), DigitChar(l)>>,
                 queries |-> queries]]

NewPage(p, layout) ==
    [displayName |-> <<"P", DigitChar(p)>>, layout |-> layout]

AddToken(pages, tok) ==
    LET p == Len(pages)
        l == Len(pages[p].layout)
        q == Len(pages[p].layout[l].widget.queries)
    IN  CASE tok.brk = "emptypage" -> Append(pages, NewPage(p + 1, <<>>))
          [] tok.brk = "page" ->
                Append(pages,
                       NewPage(p + 1, <<NewItem(p + 1, 1, <<NewQuery(tok)>>)>>))
          [] tok.brk = "emptyitem" ->
                [pages EXCEPT ![p].layout = Append(@, NewItem(p, l + 1, <<>>))]
          [] tok.brk = "item" ->
                [pages EXCEPT ![p].layout =
                    Append(@, NewItem(p, l + 1, <<NewQuery(tok)>>))]
          [] tok.brk = "query" ->
                [pages EXCEPT ![p].layout[l].widget.queries =
                    Append(@, NewQuery(tok))]
          [] tok.brk = "same" /\ tok.kind = "field" ->
                [pages EXCEPT ![p].layout[l].widget.queries[q].query.fields =
                    Append(@, tok.leaf)]
          [] OTHER ->
                [pages EXCEPT ![p].layout[l].widget.queries[q].query.filters =
                    Append(@, tok.leaf)]

RECURSIVE BuildPages(_, _)
BuildPages(toks, pages) ==
    IF toks = <<>> THEN pages
    ELSE BuildPages(Tail(toks), AddToken(pages, Head(toks)))

PageLists(n) ==
    {BuildPages(toks, <<>>) : toks \in {t \in SeqUpTo(Tokens, n) : ValidTokens(t)}}

\* The dataset lists of the harvested documents: ds1 alone (ds2 is then not
\* mapped), and ds1 and ds2 that read the same table.
DatasetOrders ==
    [name |-> Ds1, displayName |-> OrdersView,
     queryLines |-> <<<<"S", "E", "L", "E", "C", "T", " ", "*">>, <<"F", "R", "O", "M", " ", "c", ".", "s", ".", "t">>>>]
DatasetOrdersToo ==
    [name |-> Ds2, queryLines |-> <<<<"f", "r", "o", "m", " ", "c", ".", "s", ".", "t">>>>]

DatasetLists == {<<DatasetOrders>>, <<DatasetOrders, DatasetOrdersToo>>}

FieldLiteral == [name |-> FieldName, expression |-> ExprLiteral]
FieldBA == [name |-> FieldName, expression |-> ExprBA]
FilterEmpty == [expression |-> <<>>]
FilterA == [expression |-> ExprA]

Leaf(brk, ds, kind, leaf) == [brk |-> brk, ds |-> ds, kind |-> kind, leaf |-> leaf]
Same(kind, leaf) == [brk |-> "same", kind |-> kind, leaf |-> leaf]

\* Sample documents of three and four places, over one and two pages.
SampleTokens ==
    { \* a field and a filter of one query, then a field on a second page
      << Leaf("page", Ds1, "field", FieldBA), Same("filter", FilterA),
         Leaf("page", Ds2, "field", FieldBA) >>,
      \* three queries of two widgets, reading ds1, ds2, ds1
      << Leaf("page", Ds1, "field", FieldBA),
         Leaf("query", Ds2, "field", FieldLiteral),
         Leaf("item", Ds1, "filter", FilterA) >>,
      \* the same field expression twice, and a filter
      << Leaf("page", Ds1, "field", FieldBA), Same("field", FieldBA),
         Same("filter", FilterA) >>,
      \* a field without expression, a literal field, an empty filter
      << Leaf("page", Ds2, "field", [name |-> FieldName]),
         Same("field", FieldLiteral), Same("filter", FilterEmpty) >>,
      \* two pages, an empty layout item, four places
      << Leaf("page", Ds1, "filter", FilterA), [brk |-> "emptyitem"],
         Leaf("item", Ds2, "field", FieldBA), Same("filter", FilterEmpty),
         Leaf("page", Ds1, "field", FieldLiteral) >> }

SamplePages == {BuildPages(toks, <<>>) : toks \in SampleTokens}

Documents ==
    {[datasets |-> ds, pages |-> pages] :
        ds \in DatasetLists, pages \in PageLists(MaxTokens) \cup SamplePages}

-----------------------------------------------------------------------------
(* Spec: one run of extract_expressions over a document.                   *)

Init ==
    /\ pc = "start"
    /\ data \in Documents
    /\ query = <<>>
    /\ expression = <<>>
    /\ ret = None
    /\ dataset_mapping = <<>>
    /\ results = NoResults
    /\ cursor = <<>>
    /\ consumer = "none"
    /\ table_columns_used = <<>>
    /\ files = <<>>

\* Lines 11-27: the dataset map and the empty results; the loop nest is
\* about to visit every field and filter of the document.
Start ==
    /\ pc = "start"
    /\ dataset_mapping' = build_dataset_mapping(data)
    /\ results' = InitialResults(build_dataset_mapping(data))
    /\ cursor' = Traversal(data)
    /\ pc' = "harvest"
    /\ UNCHANGED <<query, expression, ret, data, consumer, table_columns_used, files>>

\* Lines 50-72: one iteration of the loop over the fields of a query.
ExtractField ==
    /\ pc = "harvest"
    /\ cursor # <<>>
    /\ Head(cursor).kind = "field"
    /\ results' = FieldStep(data, dataset_mapping, Head(cursor), results)
    /\ cursor' = Tail(cursor)
    /\ UNCHANGED <<pc, query, expression, ret, data, dataset_mapping, consumer,
                   table_columns_used, files>>

\* Lines 75-95: one iteration of the loop over the filters of a query.
ExtractFilter ==
    /\ pc = "harvest"
    /\ cursor # <<>>
    /\ Head(cursor).kind = "filter"
    /\ results' = FilterStep(data, dataset_mapping, Head(cursor), results)
    /\ cursor' = Tail(cursor)
    /\ UNCHANGED <<pc, query, expression, ret, data, dataset_mapping, consumer,
                   table_columns_used, files>>

\* Lines 97-101: the loop nest is over; the results are returned.
Finish ==
    /\ pc = "harvest"
    /\ cursor = <<>>
    /\ results' = FinalResults(results)
    /\ pc' = "done"
    /\ UNCHANGED <<query, expression, ret, data, dataset_mapping, cursor,
                   consumer, table_columns_used, files>>

Next == Start \/ ExtractField \/ ExtractFilter \/ Finish

Spec == Init /\ [][Next]_vars

-----------------------------------------------------------------------------
(* SpecMap: build_dataset_mapping applied to the datasets of a document.   *)

\* queryLines: without FROM, with a FROM clause, and with FROM and its table
\* on two lines.
QueryLinesChoices ==
    { <<>>,
      <<<<"S", "E", "L", "E", "C", "T", " ", "1">>>>,
      <<<<"S", "E", "L", "E", "C", "T", " ", "*">>, <<"F", "R", "O", "M", " ", "c", ".", "s", ".", "t">>>>,
      <<<<"s", "e", "l", "e", "c", "t", " ", "a", " ", "f", "r", "o", "m">>, <<"t", "2">>>> }

DatasetChoices ==
    {[name |-> n] : n \in {Ds1, Ds2}}
    \cup {[name |-> n, displayName |-> OrdersView] : n \in {Ds1, Ds2}}
    \cup {[name |-> n, queryLines |-> ql] :
             n \in {Ds1, Ds2}, ql \in QueryLinesChoices}
    \cup {[name |-> n, displayName |-> OrdersView, queryLines |-> ql] :
             n \in {Ds1, Ds2}, ql \in QueryLinesChoices}
    \cup {[displayName |-> OrdersView, queryLines |-> <<<<"S", "E", "L", "E", "C", "T", " ", "*">>, <<"F", "R", "O", "M", " ", "c", ".", "s", ".", "t">>>>]}

InitMap ==
    /\ pc = "map_call"
    /\ data \in {[datasets |-> ds, pages |-> <<>>] :
                    ds \in SeqUpTo(DatasetChoices, MaxDatasets)}
    /\ query = <<>>
    /\ expression = <<>>
    /\ ret = None
    /\ dataset_mapping = <<>>
    /\ results = NoResults
    /\ cursor = <<>>
    /\ consumer = "none"
    /\ table_columns_used = <<>>
    /\ files = <<>>

CallBuildDatasetMapping ==
    /\ pc = "map_call"
    /\ dataset_mapping' = build_dataset_mapping(data)
    /\ pc' = "map_done"
    /\ UNCHANGED <<query, expression, ret, data, results, cursor, consumer,
                   table_columns_used, files>>

NextMap == CallBuildDatasetMapping

SpecMap == InitMap /\ [][NextMap]_vars

-----------------------------------------------------------------------------
(* SpecGen: the generators of column_lens.py derive, from the results of a *)
(* finished extract_expressions call, the columns used per table.          *)

\* columns = set(); for entry in entries: columns.update(entry['columns_used'])
ColumnsOf(entries) == UNION {entries[i].columns_used : i \in 1..Len(entries)}

\* list(S) for a set S: the elements in an order the program does not choose.
ListsOf(S) ==
    {s \in [1..Cardinality(S) -> S] : {s[i] : i \in 1..Cardinality(S)} = S}

\* table -> sorted(list(columns)), as three of the generators build it.
SortedColumnsByTable(by_table) ==
    [T \in DOMAIN by_table |-> Sorted(ColumnsOf(by_table[T]))]

\* table -> list(columns), as generate_unused_columns_python builds it: every
\* outcome.
ListedColumnsByTable(by_table) ==
    {tc \in [DOMAIN by_table ->
                UNION {ListsOf(ColumnsOf(by_table[T])) : T \in DOMAIN by_table}] :
        \A T \in DOMAIN by_table : tc[T] \in ListsOf(ColumnsOf(by_table[T]))}

InitGen ==
    /\ pc = "done"
    /\ data \in Documents
    /\ dataset_mapping = build_dataset_mapping(data)
    /\ results = extract_expressions(data)
    /\ query = <<>>
    /\ expression = <<>>
    /\ ret = None
    /\ cursor = <<>>
    /\ consumer = "none"
    /\ table_columns_used = <<>>
    /\ files = <<>>

\* column_lens.py lines 160-166
GenerateUnusedColumnsSql ==
    /\ pc = "done"
    /\ table_columns_used' = SortedColumnsByTable(results.by_table)
    /\ consumer' = "generate_unused_columns_sql"
    /\ pc' = "generated"
    /\ UNCHANGED <<query, expression, ret, data, dataset_mapping, results, cursor, files>>

\* column_lens.py lines 217-222
GenerateComparisonSql ==
    /\ pc = "done"
    /\ table_columns_used' = SortedColumnsByTable(results.by_table)
    /\ consumer' = "generate_comparison_sql"
    /\ pc' = "generated"
    /\ UNCHANGED <<query, expression, ret, data, dataset_mapping, results, cursor, files>>

\* column_lens.py lines 298-304 (the 'columns' of every column list)
GenerateColumnListsForSql ==
    /\ pc = "done"
    /\ table_columns_used' = SortedColumnsByTable(results.by_table)
    /\ consumer' = "generate_column_lists_for_sql"
    /\ pc' = "generated"
    /\ UNCHANGED <<query, expression, ret, data, dataset_mapping, results, cursor, files>>

\* column_lens.py lines 449-455
GenerateUnusedColumnsPython ==
    /\ pc = "done"
    /\ table_columns_used' \in ListedColumnsByTable(results.by_table)
    /\ consumer' = "generate_unused_columns_python"
    /\ pc' = "generated"
    /\ UNCHANGED <<query, expression, ret, data, dataset_mapping, results, cursor, files>>

NextGen ==
    \/ GenerateUnusedColumnsSql
    \/ GenerateComparisonSql
    \/ GenerateColumnListsForSql
    \/ GenerateUnusedColumnsPython

SpecGen == InitGen /\ [][NextGen]_vars

-----------------------------------------------------------------------------
(* SpecTable: extract_table_name applied to one query string.              *)

\* The pieces the checked query strings are made of.
QueryChunks ==
    { <<"F", "R", "O", "M">>,
      <<"f", "R", "o", "m", "\t">>,
      <<" ">>,
      <<"t">>,
      <<"S", "_", "1">>,
      <<".">>,
      <<")">> }

\* Queries whose FROM is followed by an identifier of four and of five
\* segments.
SampleQueries ==
    { <<"F", "R", "O", "M", " ", "a", ".", "b", ".", "c", ".", "d">>,
      <<"f", "r", "o", "m", " ", "a", ".", "b", ".", "c", ".", "d", ".", "e",
        " ", "x">> }

Queries ==
    {Concat(cs) : cs \in SeqUpTo(QueryChunks, MaxChunks)} \cup SampleQueries

InitTable ==
    /\ pc = "table_call"
    /\ query \in Queries
    /\ expression = <<>>
    /\ ret = None
    /\ data = NoDocument
    /\ dataset_mapping = <<>>
    /\ results = NoResults
    /\ cursor = <<>>
    /\ consumer = "none"
    /\ table_columns_used = <<>>
    /\ files = <<>>

CallExtractTableName ==
    /\ pc = "table_call"
    /\ ret' = extract_table_name(query)
    /\ pc' = "table_done"
    /\ UNCHANGED <<query, expression, data, dataset_mapping, results, cursor,
                   consumer, table_columns_used, files>>

NextTable == CallExtractTableName

SpecTable == InitTable /\ [][NextTable]_vars

-----------------------------------------------------------------------------
(* SpecCols: extract_columns_from_expression applied to one expression.    *)

ExprChars == {Tick, "a", "b", " "}

InitCols ==
    /\ pc = "cols_call"
    /\ expression \in SeqUpTo(ExprChars, MaxExprLen)
    /\ query = <<>>
    /\ ret = None
    /\ data = NoDocument
    /\ dataset_mapping = <<>>
    /\ results = NoResults
    /\ cursor = <<>>
    /\ consumer = "none"
    /\ table_columns_used = <<>>
    /\ files = <<>>

CallExtractColumns ==
    /\ pc = "cols_call"
    /\ ret' = extract_columns_from_expression(expression)
    /\ pc' = "cols_done"
    /\ UNCHANGED <<query, expression, data, dataset_mapping, results, cursor,
                   consumer, table_columns_used, files>>

NextCols == CallExtractColumns

SpecCols == InitCols /\ [][NextCols]_vars

-----------------------------------------------------------------------------
(* C4: the first FROM occurrence decides the table name.                   *)

\* The upper-case form of a letter of the word FROM.
UpperOfFrom(c) ==
    CASE c = "f" -> "F" [] c = "r" -> "R" [] c = "o" -> "O" [] c = "m" -> "M"
      [] OTHER -> c

\* q[j..k] is a dotted identifier: runs of [a-zA-Z0-9_] joined by single dots.
IsDottedIdentifier(q, j, k) ==
    /\ j <= k
    /\ IsWordChar(q[j]) /\ IsWordChar(q[k])
    /\ \A n \in j..k : IsWordChar(q[n]) \/ q[n] = "."
    /\ \A n \in j..(k - 1) : ~(q[n] = "." /\ q[n + 1] = ".")

\* The identifier q[j..k] cannot be made longer to the right.
IsLongestIdentifier(q, j, k) ==
    /\ ~(k + 1 <= Len(q) /\ IsWordChar(q[k + 1]))
    /\ ~(k + 2 <= Len(q) /\ q[k + 1] = "." /\ IsWordChar(q[k + 2]))

\* An occurrence: FROM (in any letter case) at i, white space up to j - 1,
\* and the longest dotted identifier q[j..k].
IsOccurrence(q, i, j, k) ==
    /\ 1 <= i /\ i + 4 < j /\ j <= k /\ k <= Len(q)
    /\ [n \in 1..4 |-> UpperOfFrom(q[i + n - 1])] = <<"F", "R", "O", "M">>
    /\ \A n \in (i + 4)..(j - 1) : IsSpace(q[n])
    /\ IsDottedIdentifier(q, j, k)
    /\ IsLongestIdentifier(q, j, k)

\* The positions where FROM stands, in any letter case.
FromPositions(q) ==
    {i \in 1..(Len(q) - 3) :
        [n \in 1..4 |-> UpperOfFrom(q[i + n - 1])] = <<"F", "R", "O", "M">>}

Occurrences(q) ==
    UNION {{<<i, j, k>> : j \in {x \in (i + 5)..Len(q) : IsWordChar(q[x])},
                          k \in (i + 5)..Len(q)}
              : i \in FromPositions(q)}
    \cap {o \in (1..Len(q)) \X (1..Len(q)) \X (1..Len(q)) :
              IsOccurrence(q, o[1], o[2], o[3])}

\* The identifier of the leftmost occurrence.
FirstIdentifier(q) ==
    LET o == CHOOSE x \in Occurrences(q) :
                 \A other \in Occurrences(q) : x[1] <= other[1]
    IN  SubSeq(q, o[2], o[3])

\* C4: extract_table_name returns, verbatim, the identifier of the leftmost
\* occurrence of FROM + white space + dotted identifier (matched in any
\* letter case), whatever follows it, and None when there is no occurrence.
C4_FirstFromDecides ==
    pc = "table_done" =>
        IF Occurrences(query) = {} THEN ret = None
        ELSE ret = FirstIdentifier(query)

\* C4 witness: a query with two occurrences naming different tables, the
\* first written in mixed case, for which the first identifier was returned.
C4_Witness ==
    /\ pc = "table_done"
    /\ \E o1, o2 \in Occurrences(query) :
          /\ o1[1] < o2[1]
          /\ SubSeq(query, o1[2], o1[3]) # SubSeq(query, o2[2], o2[3])
          /\ query[o1[1]] = "f"
          /\ ret = SubSeq(query, o1[2], o1[3])
          /\ \E n \in o1[2]..o1[3] : query[n] = "S"

-----------------------------------------------------------------------------
(* C5: the column tokenizer pairs backticks.                               *)

\* The positions of the backticks of e, in increasing order.
TickPositions(e) ==
    LET P == {i \in 1..Len(e) : e[i] = Tick}
        Rank(i) == Cardinality({j \in P : j <= i})
    IN  [m \in 1..Cardinality(P) |-> CHOOSE i \in P : Rank(i) = m]

\* The claim as stated: the 1st backtick pairs with the 2nd, the 3rd with
\* the 4th, and so on; an unpaired last backtick is ignored.
StrictPairTokens(e) ==
    LET t == TickPositions(e)
    IN  {SubSeq(e, t[2 * m - 1] + 1, t[2 * m] - 1) : m \in 1..(Len(t) \div 2)}

\* The pairing the code performs, on the list t of backtick positions from
\* its m-th element on: a backtick directly followed by a backtick is
\* skipped, any other backtick pairs with the next one.
RECURSIVE SkippingPairTokens(_, _, _)
SkippingPairTokens(e, t, m) ==
    IF m >= Len(t) THEN {}
    ELSE IF t[m + 1] = t[m] + 1 THEN SkippingPairTokens(e, t, m + 1)
    ELSE {SubSeq(e, t[m] + 1, t[m + 1] - 1)}
             \cup SkippingPairTokens(e, t, m + 2)

\* C5 as stated: the tokens are those of the strict 1-2, 3-4 pairing, also
\* with adjacent backticks.
C5_StrictPairing ==
    pc = "cols_done" => ret = StrictPairTokens(expression)

\* C5 as amended: the tokens are those of the left-to-right pairing in which
\* a backtick directly followed by another backtick pairs with nothing;
\* every token is the non-empty text between its two backticks, verbatim.
C5_SkippingPairing ==
    pc = "cols_done" =>
        /\ ret = SkippingPairTokens(expression, TickPositions(expression), 1)
        /\ <<>> \notin ret
        /\ (Len(TickPositions(expression)) < 2 => ret = {})

\* C5 witness: adjacent backticks and an odd backtick count, with a token.
C5_Witness ==
    /\ pc = "cols_done"
    /\ Len(TickPositions(expression)) = 3
    /\ expression[1] = Tick /\ expression[2] = Tick
    /\ ret = {<<"a">>}

-----------------------------------------------------------------------------
(* C2, C3: the dataset map.                                                *)

DatasetsOf(d) == {d.datasets[k] : k \in 1..Len(d.datasets)}

\* C2: the keys of the dataset map are exactly the dataset ids that occur in
\* the datasets of the document, whatever their query lines and display name.
C2_EveryDatasetIdMapped ==
    pc = "map_done" =>
        DOMAIN dataset_mapping =
            {ds.name : ds \in {x \in DatasetsOf(data) : "name" \in DOMAIN x}}

\* The name the fallback chain gives dataset ds: the FROM match of its joined
\* query lines, else its display name, else its id.
ChainName(ds) ==
    LET lines == IF "queryLines" \in DOMAIN ds THEN ds.queryLines ELSE <<>>
    IN  IF Occurrences(Join(lines)) # {} THEN FirstIdentifier(Join(lines))
        ELSE IF "displayName" \in DOMAIN ds THEN ds.displayName
        ELSE ds.name

\* C3: every dataset entry (the last one of its id) is resolved by the
\* fallback chain: FROM match, else display name, else the dataset id.  The
\* resolved name of an id is its entry in the map, or the id itself when the
\* map has no entry (line 47).
C3_FallbackChain ==
    pc = "map_done" =>
        \A k \in 1..Len(data.datasets) :
            LET ds == data.datasets[k]
            IN  ( /\ "name" \in DOMAIN ds
                  /\ \A n \in (k + 1)..Len(data.datasets) :
                        Get(data.datasets[n], "name", None) # ds.name )
                => Get(dataset_mapping, ds.name, ds.name) = ChainName(ds)

-----------------------------------------------------------------------------
(* The places of a document, stated without the loop nest.                 *)

Places(d) ==
    UNION {
      UNION {
        UNION {
          {[p |-> p, l |-> l, q |-> n, kind |-> "field", k |-> k] :
              k \in 1..Len(d.pages[p].layout[l].widget.queries[n].query.fields)}
          \cup
          {[p |-> p, l |-> l, q |-> n, kind |-> "filter", k |-> k] :
              k \in 1..Len(d.pages[p].layout[l].widget.queries[n].query.filters)}
          : n \in 1..Len(d.pages[p].layout[l].widget.queries)}
        : l \in 1..Len(d.pages[p].layout)}
      : p \in 1..Len(d.pages)}

\* The field or filter at a place.
PlaceLeaf(d, a) ==
    LET q == d.pages[a.p].layout[a.l].widget.queries[a.q].query
    IN  IF a.kind = "field" THEN q.fields[a.k] ELSE q.filters[a.k]

\* The place holds a present, non-empty expression.
HasExpression(d, a) ==
    /\ "expression" \in DOMAIN PlaceLeaf(d, a)
    /\ PlaceLeaf(d, a).expression # None
    /\ Len(PlaceLeaf(d, a).expression) > 0

\* The traversal order the specification fixes: page, then layout item, then
\* query, then fields before filters, then the position in the list.
Precedes(a, b) ==
    \/ a.p < b.p
    \/ a.p = b.p /\ a.l < b.l
    \/ a.p = b.p /\ a.l = b.l /\ a.q < b.q
    \/ a.p = b.p /\ a.l = b.l /\ a.q = b.q
          /\ a.kind = "field" /\ b.kind = "filter"
    \/ a.p = b.p /\ a.l = b.l /\ a.q = b.q /\ a.kind = b.kind /\ a.k < b.k

\* The places of S in traversal order.
InOrder(S) ==
    [i \in 1..Cardinality(S) |->
        CHOOSE a \in S : Cardinality({b \in S : Precedes(b, a)}) = i - 1]

\* The places the loop nest has visited.
Visited == Places(data) \ {cursor[i] : i \in 1..Len(cursor)}

Running == pc \in {"harvest", "done"}

\* The elements of a sequence.
Range(s) == {s[i] : i \in 1..Len(s)}

-----------------------------------------------------------------------------
(* C1: one record per non-empty expression.                                *)

\* C1: when extract_expressions returns, by_widget holds as many records as
\* the document holds fields and filters with a present, non-empty
\* expression; an expression without columns counts like any other.
C1_OneRecordPerExpression ==
    pc = "done" =>
        Len(results.by_widget) =
            Cardinality({a \in Places(data) : HasExpression(data, a)})

\* C1 witness: a finished run over a document with a field without expression,
\* a filter with an empty expression and an expression without columns, the
\* last one recorded with empty columns_used.
C1_Witness ==
    /\ pc = "done"
    /\ \E a \in Places(data) : "expression" \notin DOMAIN PlaceLeaf(data, a)
    /\ \E a \in Places(data) :
          /\ "expression" \in DOMAIN PlaceLeaf(data, a)
          /\ PlaceLeaf(data, a).expression = <<>>
    /\ Len(results.by_widget) = 1
    /\ results.by_widget[1].columns_used = {}

-----------------------------------------------------------------------------
(* C6: by_widget is in traversal order.                                    *)

\* What a record says about where it comes from, and the same for a place.
RecordOrigin(r) ==
    <<r.page, r.widget, r.dataset_id, r.type,
      IF r.type = "field" THEN r.expression ELSE r.filter_expression>>

PlaceOrigin(d, a) ==
    <<d.pages[a.p].displayName,
      d.pages[a.p].layout[a.l].widget.name,
      d.pages[a.p].layout[a.l].widget.queries[a.q].query.datasetName,
      a.kind,
      PlaceLeaf(d, a).expression>>

\* C6: at every point of the run, by_widget lists the visited places that
\* hold an expression in the fixed order: pages, then layout items, then
\* queries in document order, and within a query the fields before the
\* filters; so no record of a later place precedes one of an earlier place.
C6_TraversalOrder ==
    Running =>
        LET expected ==
                InOrder({a \in Visited : HasExpression(data, a)})
        IN  /\ Len(results.by_widget) = Len(expected)
            /\ \A i \in 1..Len(expected) :
                  RecordOrigin(results.by_widget[i])
                      = PlaceOrigin(data, expected[i])

\* C6 witness: a finished run with a field and a filter of one query on the
\* first page, recorded in this order, and a field of the second page after
\* them.
C6_Witness ==
    /\ pc = "done"
    /\ Len(results.by_widget) = 3
    /\ results.by_widget[1].type = "field"
    /\ results.by_widget[2].type = "filter"
    /\ results.by_widget[3].type = "field"
    /\ results.by_widget[1].page = results.by_widget[2].page
    /\ results.by_widget[1].widget = results.by_widget[2].widget
    /\ results.by_widget[3].page # results.by_widget[1].page

-----------------------------------------------------------------------------
(* C7: by_table partitions by_widget.                                      *)

\* The sizes of the groups of the tables in keys, added up.
RECURSIVE SumOfLengths(_, _)
SumOfLengths(by_table, keys) ==
    IF keys = {} THEN 0
    ELSE LET T == CHOOSE x \in keys : TRUE
         IN  Len(by_table[T]) + SumOfLengths(by_table, keys \ {T})

\* C7: the keys of by_table are the table names of the records, and the
\* group of a table is the subsequence of by_widget with that table name, in
\* the same order; no group is empty and the group sizes add up to the length
\* of by_widget.
C7_ByTablePartition ==
    Running =>
        /\ DOMAIN results.by_table =
              {r.table_name : r \in Range(results.by_widget)}
        /\ \A T \in DOMAIN results.by_table :
              /\ results.by_table[T] =
                    SelectSeq(results.by_widget, LAMBDA r : r.table_name = T)
              /\ results.by_table[T] # <<>>
        /\ SumOfLengths(results.by_table, DOMAIN results.by_table)
              = Len(results.by_widget)

\* C7 witness: a finished run whose first and third record are of one table,
\* under two dataset ids, and whose second record is of another table.
C7_Witness ==
    /\ pc = "done"
    /\ Len(results.by_widget) = 3
    /\ results.by_widget[1].table_name = results.by_widget[3].table_name
    /\ results.by_widget[1].table_name # results.by_widget[2].table_name
    /\ Len(results.by_table[results.by_widget[1].table_name]) = 2
    /\ Cardinality(DOMAIN results.by_table) = 2

-----------------------------------------------------------------------------
(* C8: all_columns is the sorted union of the records' columns.            *)

\* s is in strictly ascending order (so it holds no duplicate).
IsAscending(s) == \A i \in 1..(Len(s) - 1) : StrLess(s[i], s[i + 1])

\* C8: in the returned results, all_columns is a sequence in ascending order
\* without duplicates whose elements are exactly the columns some record of
\* by_widget uses.
C8_AllColumnsSortedUnion ==
    pc = "done" =>
        /\ IsAscending(results.all_columns)
        /\ Range(results.all_columns) =
              UNION {r.columns_used : r \in Range(results.by_widget)}

\* C8 witness: a finished run in which one record uses b and a, another uses
\* a, and all_columns is a, b.
C8_Witness ==
    /\ pc = "done"
    /\ results.all_columns = << <<"a">>, <<"b">> >>
    /\ \E r \in Range(results.by_widget) : r.columns_used = {<<"a">>}
    /\ \E r \in Range(results.by_widget) : r.columns_used = {<<"a">>, <<"b">>}

-----------------------------------------------------------------------------
(* C10: all_expressions and all_filters.                                   *)

FieldRecords(r) == SelectSeq(r.by_widget, LAMBDA e : e.type = "field")
FilterRecords(r) == SelectSeq(r.by_widget, LAMBDA e : e.type = "filter")

\* C10: all_expressions is the sequence of the expressions of the field
\* records of by_widget, all_filters that of the filter records, each in
\* by_widget order and with duplicates; their lengths add up to the length of
\* by_widget.
C10_ExpressionsAndFilters ==
    Running =>
        /\ results.all_expressions =
              [i \in 1..Len(FieldRecords(results)) |->
                  FieldRecords(results)[i].expression]
        /\ results.all_filters =
              [i \in 1..Len(FilterRecords(results)) |->
                  FilterRecords(results)[i].filter_expression]
        /\ Len(results.all_expressions) + Len(results.all_filters)
              = Len(results.by_widget)

\* C10 witness: a finished run with the same field expression recorded twice
\* and one filter expression.
C10_Witness ==
    /\ pc = "done"
    /\ Len(results.all_expressions) = 2
    /\ results.all_expressions[1] = results.all_expressions[2]
    /\ Len(results.all_filters) = 1
    /\ Len(results.by_widget) = 3

-----------------------------------------------------------------------------
(* C9: the used columns per table derived by the generators.               *)

\* C9: for every table of by_table, the column list a generator derives is
\* in ascending order without duplicates and holds exactly the columns used
\* by the records of by_table[T].
C9_UsedColumnsSortedUnion ==
    pc = "generated" =>
        /\ DOMAIN table_columns_used = DOMAIN results.by_table
        /\ \A T \in DOMAIN results.by_table :
              /\ IsAscending(table_columns_used[T])
              /\ Range(table_columns_used[T]) =
                    UNION {r.columns_used : r \in Range(results.by_table[T])}

\* The part of C9 the code keeps: the three SQL generators derive sorted
\* lists, and every generator derives the right set without duplicates.
C9_SortedExceptPython ==
    pc = "generated" =>
        \A T \in DOMAIN results.by_table :
            /\ consumer # "generate_unused_columns_python"
                  => IsAscending(table_columns_used[T])
            /\ Range(table_columns_used[T]) =
                  UNION {r.columns_used : r \in Range(results.by_table[T])}
            /\ Len(table_columns_used[T]) = Cardinality(Range(table_columns_used[T]))

-----------------------------------------------------------------------------
(* SpecTwice: extract_expressions is called, and then called again on the  *)
(* same document, in the state the first call left behind.                 *)

\* The caller keeps what the first call returned, next to the document it
\* handed in, and calls again.  The locals of the first call (results,
\* dataset_mapping, the exhausted loop nest) are still what that call left.
CallAgain ==
    /\ pc = "done"
    /\ ret = None
    /\ ret' = <<results, data>>
    /\ pc' = "start"
    /\ UNCHANGED <<query, expression, data, dataset_mapping, results, cursor,
                   consumer, table_columns_used, files>>

NextTwice == Start \/ ExtractField \/ ExtractFilter \/ Finish \/ CallAgain

SpecTwice == Init /\ [][NextTwice]_vars

\* The second call has returned.
SecondDone == pc = "done" /\ Len(ret) = 2

-----------------------------------------------------------------------------
(* Documents of any shape.  Where the program expects a list, a document   *)
(* may hold a list, hold a scalar (a string, a number), or lack the key.   *)
(* Such a value carries its Python type.                                   *)

PyList(items) == [type |-> "list", items |-> items]
PyStr(chars) == [type |-> "str", items |-> chars]
PyInt(n) == [type |-> "int", value |-> n]
PyNone == [type |-> "NoneType"]

\* A faulty variant of ListAt: d.get(key), without the default.
ListAtNoDefault(d, key) == Get(d, key, PyNone)

\* d.get(key, [])
ListAt(d, key) == Get(d, key, PyList(<<>>))

\* for x in v: the values x takes.  A string yields its characters, each a
\* string of length one.
ItemsOf(v) ==
    CASE v.type = "list" -> v.items
      [] v.type = "str" -> [i \in 1..Len(v.items) |-> <<v.items[i]>>]
      [] OTHER -> <<>>

\* for x in v raises TypeError: v is not iterable.
ForRaises(v) == v.type \notin {"list", "str"}

\* x.get(...) raises AttributeError for the first x the loop over v yields:
\* x is a character of a string.
GetRaises(v) == v.type = "str" /\ v.items # <<>>

\* bool(v)
PyTruthy(v) ==
    CASE v.type \in {"list", "str"} -> v.items # <<>>
      [] v.type = "int" -> v.value # 0
      [] OTHER -> FALSE

\* Lines 50-95 raise for query q: the loop over its fields or the loop over
\* its filters does.
QueryRaises(q) ==
    \E key \in {"fields", "filters"} :
        ForRaises(ListAt(q, key)) \/ GetRaises(ListAt(q, key))

\* Lines 44-95 raise for a widget.
WidgetRaises(widget) ==
    LET v == ListAt(widget, "queries")
    IN  IF ForRaises(v) \/ GetRaises(v) THEN TRUE
        ELSE \E i \in 1..Len(ItemsOf(v)) : QueryRaises(QueryOf(ItemsOf(v)[i]))

\* Lines 34-95 raise for a page.
PageRaises(page) ==
    LET v == ListAt(page, "layout")
    IN  IF ForRaises(v) \/ GetRaises(v) THEN TRUE
        ELSE \E i \in 1..Len(ItemsOf(v)) : WidgetRaises(WidgetOf(ItemsOf(v)[i]))

\* Lines 30-95 raise.
PagesRaise(d) ==
    LET v == ListAt(d, "pages")
    IN  IF ForRaises(v) \/ GetRaises(v) THEN TRUE
        ELSE \E i \in 1..Len(ItemsOf(v)) : PageRaises(ItemsOf(v)[i])

\* Lines 111-125 raise for a dataset: ' '.join(query_lines) raises TypeError
\* when it is reached with a value that is not iterable.
DatasetRaises(dataset) ==
    LET query_lines == ListAt(dataset, "queryLines")
    IN  /\ Truthy(Get(dataset, "name", None))
        /\ PyTruthy(query_lines)
        /\ query_lines.type \notin {"list", "str"}

\* build_dataset_mapping raises.
DatasetsRaise(d) ==
    LET v == ListAt(d, "datasets")
    IN  IF ForRaises(v) \/ GetRaises(v) THEN TRUE
        ELSE \E i \in 1..Len(ItemsOf(v)) : DatasetRaises(ItemsOf(v)[i])

\* extract_expressions raises: no error is caught, so the first one ends the
\* call.
Raises(d) == DatasetsRaise(d) \/ PagesRaise(d)

\* A document as the loops of a call that does not raise see it: every value
\* that is iterated stands for the values it yields.
SeenQuery(q) ==
    [k \in DOMAIN q |->
        IF k \in {"fields", "filters"} THEN ItemsOf(q[k]) ELSE q[k]]
SeenQueryItem(query_item) ==
    [k \in DOMAIN query_item |->
        IF k = "query" THEN SeenQuery(query_item[k]) ELSE query_item[k]]
SeenWidget(widget) ==
    [k \in DOMAIN widget |->
        IF k = "queries"
        THEN [i \in 1..Len(ItemsOf(widget[k])) |->
                 SeenQueryItem(ItemsOf(widget[k])[i])]
        ELSE widget[k]]
SeenLayoutItem(layout_item) ==
    [k \in DOMAIN layout_item |->
        IF k = "widget" THEN SeenWidget(layout_item[k]) ELSE layout_item[k]]
SeenPage(page) ==
    [k \in DOMAIN page |->
        IF k = "layout"
        THEN [i \in 1..Len(ItemsOf(page[k])) |->
                 SeenLayoutItem(ItemsOf(page[k])[i])]
        ELSE page[k]]
SeenDataset(dataset) ==
    [k \in DOMAIN dataset |->
        IF k = "queryLines" THEN ItemsOf(dataset[k]) ELSE dataset[k]]
SeenDocument(d) ==
    [k \in DOMAIN d |->
        CASE k = "datasets" ->
                [i \in 1..Len(ItemsOf(d[k])) |-> SeenDataset(ItemsOf(d[k])[i])]
          [] k = "pages" ->
                [i \in 1..Len(ItemsOf(d[k])) |-> SeenPage(ItemsOf(d[k])[i])]
          [] OTHER -> d[k]]

-----------------------------------------------------------------------------
(* SpecShape: extract_expressions applied to documents that lack           *)
(* containers or hold a scalar in the place of a list.                     *)

\* The keys under which a document holds its containers.
ListKeys ==
    {"datasets", "queryLines", "pages", "layout", "queries", "fields",
     "filters"}
ContainerKeys == ListKeys \cup {"widget", "query"}

\* The scalars put in the place of a list: the empty string, two strings,
\* zero and another number.
ScalarChoices ==
    { PyStr(<<>>), PyStr(<<"t">>), PyStr(<<"F", "R", "O", "M", " ", "t">>),
      PyInt(0), PyInt(5) }

\* r without the keys in absent.
Without(r, absent) == [k \in DOMAIN r \ absent |-> r[k]]

\* A document of two pages.  The first page holds a field and a filter of a
\* query that reads ds1; the containers on the way to them, and those of the
\* dataset ds1, are left out when their key is in absent, and the one under
\* the key at is replaced by the scalar value.  The second page is complete
\* and holds one filter of a query that reads ds2.
ShapedDocument(absent, at, value) ==
    LET ListOr(key, items) == IF key = at THEN value ELSE PyList(items)
        q1 == Without([datasetName |-> Ds1,
                       fields |-> ListOr("fields", <<FieldBA>>),
                       filters |-> ListOr("filters", <<FilterA>>)], absent)
        w1 == Without([name |-> <<"w", "1">>,
                       queries |-> ListOr("queries",
                                          <<Without([query |-> q1], absent)>>)],
                      absent)
        p1 == Without([displayName |-> <<"P", "1">>,
                       layout |-> ListOr("layout",
                                         <<Without([widget |-> w1], absent)>>)],
                      absent)
        p2 == [displayName |-> <<"P", "2">>,
               layout |-> PyList(<<
                   [widget |->
                       [name |-> <<"w", "2">>,
                        queries |-> PyList(<<
                            [query |->
                                [datasetName |-> Ds2,
                                 fields |-> PyList(<<>>),
                                 filters |-> PyList(<<FilterA>>)]]>>)]]>>)]
        d1 == Without([name |-> Ds1, displayName |-> OrdersView,
                       queryLines |-> ListOr("queryLines",
                           <<<<"F", "R", "O", "M", " ", "c", ".", "s", ".", "t">>>>)],
                      absent)
    IN  Without([datasets |-> ListOr("datasets", <<d1>>),
                 pages |-> ListOr("pages", <<p1, p2>>)], absent)

\* The documents that lack any of their containers.
AbsentDocuments ==
    {ShapedDocument(absent, "nowhere", PyNone) : absent \in SUBSET ContainerKeys}

\* The documents that hold one scalar in the place of a list.
ScalarDocuments ==
    {ShapedDocument({}, at, value) : at \in ListKeys, value \in ScalarChoices}

\* r1 and r2 in one dict.
Merge(r1, r2) ==
    [k \in DOMAIN r1 \cup DOMAIN r2 |-> IF k \in DOMAIN r1 THEN r1[k] ELSE r2[k]]

\* A widget without name, with a name, with the empty name.
NameChoices == {EmptyDict, [name |-> <<"w">>], [name |-> <<>>]}

\* A widget without spec, with a spec without frame, with a frame without
\* title, with the empty title, with a title.
SpecChoices ==
    { EmptyDict,
      [spec |-> EmptyDict],
      [spec |-> [frame |-> EmptyDict]],
      [spec |-> [frame |-> [title |-> <<>>]]],
      [spec |-> [frame |-> [title |-> <<"T">>]]] }

\* The second widget of a labelled document: with a name only, or with a
\* title only.
SecondWidgetChoices ==
    {[name |-> <<"w", "2">>], [spec |-> [frame |-> [title |-> <<"T", "2">>]]]}

\* With or without the display name of the page, the dataset name of the
\* first query, and a dataset that is named like the placeholder.
PageChoices == {EmptyDict, [displayName |-> <<"P", "1">>]}
QueryChoices == {EmptyDict, [datasetName |-> Ds1]}
PlaceholderDatasets ==
    { <<>>,
      <<[name |-> UnknownDataset,
         queryLines |-> PyList(<<<<"F", "R", "O", "M", " ", "c", ".", "s", ".", "t">>>>)]>> }

\* A layout item whose widget has one query with one field.
LabelledItem(widget, q) ==
    [widget |->
        Merge(widget,
              [queries |-> PyList(<<
                  [query |-> Merge(q, [fields |-> PyList(<<FieldLiteral>>)])]>>)])]

\* The documents of one page and two widgets, with and without the names that
\* label a record.
LabelDocuments ==
    {[datasets |-> PyList(datasets),
      pages |-> PyList(<<
          Merge(page,
                [layout |-> PyList(<<
                    LabelledItem(Merge(name, spec), q),
                    LabelledItem(second, [datasetName |-> Ds2])>>)])>>)] :
        name \in NameChoices, spec \in SpecChoices,
        second \in SecondWidgetChoices, page \in PageChoices,
        q \in QueryChoices, datasets \in PlaceholderDatasets}

\* A document of LabelDocuments: it has one page (the others have two, or
\* none).  Its i-th record is that of its i-th widget.
IsLabelDocument(d) ==
    "pages" \in DOMAIN d /\ d.pages.type = "list" /\ Len(d.pages.items) = 1

ShapeDocuments == AbsentDocuments \cup ScalarDocuments \cup LabelDocuments

InitShape ==
    /\ pc = "shape_call"
    /\ data \in ShapeDocuments
    /\ query = <<>>
    /\ expression = <<>>
    /\ ret = None
    /\ dataset_mapping = <<>>
    /\ results = NoResults
    /\ cursor = <<>>
    /\ consumer = "none"
    /\ table_columns_used = <<>>
    /\ files = <<>>

\* The call ends in an error, which the caller receives: nothing is returned.
ExtractRaises ==
    /\ pc = "shape_call"
    /\ Raises(data)
    /\ pc' = "raised"
    /\ UNCHANGED <<query, expression, ret, data, dataset_mapping, results,
                   cursor, consumer, table_columns_used, files>>

\* The call returns its results.
ExtractReturns ==
    /\ pc = "shape_call"
    /\ ~Raises(data)
    /\ dataset_mapping' = build_dataset_mapping(SeenDocument(data))
    /\ results' = extract_expressions(SeenDocument(data))
    /\ pc' = "returned"
    /\ UNCHANGED <<query, expression, ret, data, cursor, consumer,
                   table_columns_used, files>>

NextShape == ExtractRaises \/ ExtractReturns

SpecShape == InitShape /\ [][NextShape]_vars

-----------------------------------------------------------------------------
(* C12, C13: absent containers and scalars in the place of a list.         *)

\* The elements of v when v is a list.
ElementsOf(v) == IF v.type = "list" THEN v.items ELSE <<>>

\* Some value that a document holds in the place of a list satisfies P.
SomeListOfQuery(q, P(_)) ==
    \E k \in DOMAIN q \cap {"fields", "filters"} : P(q[k])
SomeListOfWidget(widget, P(_)) ==
    \/ \E k \in DOMAIN widget \cap {"queries"} : P(widget[k])
    \/ \E i \in 1..Len(ElementsOf(ListAt(widget, "queries"))) :
          SomeListOfQuery(QueryOf(ElementsOf(ListAt(widget, "queries"))[i]), P)
SomeListOfPage(page, P(_)) ==
    \/ \E k \in DOMAIN page \cap {"layout"} : P(page[k])
    \/ \E i \in 1..Len(ElementsOf(ListAt(page, "layout"))) :
          SomeListOfWidget(WidgetOf(ElementsOf(ListAt(page, "layout"))[i]), P)
SomeIteratedList(d, P(_)) ==
    \/ \E k \in DOMAIN d \cap {"datasets", "pages"} : P(d[k])
    \/ \E i \in 1..Len(ElementsOf(ListAt(d, "pages"))) :
          SomeListOfPage(ElementsOf(ListAt(d, "pages"))[i], P)
SomeQueryLines(d, P(_)) ==
    \E i \in 1..Len(ElementsOf(ListAt(d, "datasets"))) :
        \E k \in DOMAIN ElementsOf(ListAt(d, "datasets"))[i] \cap {"queryLines"} :
            P(ElementsOf(ListAt(d, "datasets"))[i][k])

\* The document holds a scalar in the place of a list.
HasScalar(d) ==
    \/ SomeIteratedList(d, LAMBDA v : v.type # "list")
    \/ SomeQueryLines(d, LAMBDA v : v.type # "list")

\* The call is over, one way or the other.
ShapeDone == pc \in {"returned", "raised"}

\* r with the default under key, when r lacks the key.
WithDefault(r, key, default) ==
    [k \in DOMAIN r \cup {key} |-> IF k \in DOMAIN r THEN r[k] ELSE default]

\* r with F applied to the value of key, when r has the key.
MapKey(r, key, F(_)) == [k \in DOMAIN r |-> IF k = key THEN F(r[k]) ELSE r[k]]

\* The list v with F applied to its elements.
EachOf(v, F(_)) ==
    IF v.type = "list" THEN PyList([i \in 1..Len(v.items) |-> F(v.items[i])])
    ELSE v

\* The document with every container it lacks written out as an empty one.
FilledQuery(q) ==
    WithDefault(WithDefault(q, "fields", PyList(<<>>)), "filters", PyList(<<>>))
FilledQueryItem(x) ==
    MapKey(WithDefault(x, "query", EmptyDict), "query", FilledQuery)
FilledWidget(widget) ==
    MapKey(WithDefault(widget, "queries", PyList(<<>>)), "queries",
           LAMBDA v : EachOf(v, FilledQueryItem))
FilledLayoutItem(x) ==
    MapKey(WithDefault(x, "widget", EmptyDict), "widget", FilledWidget)
FilledPage(page) ==
    MapKey(WithDefault(page, "layout", PyList(<<>>)), "layout",
           LAMBDA v : EachOf(v, FilledLayoutItem))
FilledDataset(x) == WithDefault(x, "queryLines", PyList(<<>>))
Filled(d) ==
    MapKey(MapKey(WithDefault(WithDefault(d, "datasets", PyList(<<>>)),
                              "pages", PyList(<<>>)),
                  "datasets", LAMBDA v : EachOf(v, FilledDataset)),
           "pages", LAMBDA v : EachOf(v, FilledPage))

\* The document has every container on the way to the first query.
FirstQueryPresent(d) ==
    /\ "pages" \in DOMAIN d
    /\ "layout" \in DOMAIN d.pages.items[1]
    /\ "widget" \in DOMAIN d.pages.items[1].layout.items[1]
    /\ "queries" \in DOMAIN d.pages.items[1].layout.items[1].widget
    /\ "query" \in
          DOMAIN d.pages.items[1].layout.items[1].widget.queries.items[1]

FirstQuery(d) ==
    d.pages.items[1].layout.items[1].widget.queries.items[1].query

\* The records a document of two pages without scalars gives: one for the
\* filter of its second page, one for the field and one for the filter of
\* its first query, when they are there.
ExpectedRecords(d) ==
    IF "pages" \notin DOMAIN d THEN 0
    ELSE 1 + (IF FirstQueryPresent(d) /\ "fields" \in DOMAIN FirstQuery(d)
              THEN 1 ELSE 0)
           + (IF FirstQueryPresent(d) /\ "filters" \in DOMAIN FirstQuery(d)
              THEN 1 ELSE 0)

\* C12: a call on a document that lacks containers (pages, datasets, a
\* layout, a widget, queries, a query, fields, filters, query lines) returns;
\* it returns what it returns for the document with the missing containers
\* written out as empty ones, so a missing container adds no record and no
\* entry of the dataset map; without pages, by_widget, by_table, all_columns,
\* all_expressions and all_filters are empty; without datasets or without
\* the query lines of the only dataset, the dataset map is empty.
C12_AbsentIsEmpty ==
    (ShapeDone /\ ~HasScalar(data)) =>
        /\ pc = "returned"
        /\ results = extract_expressions(SeenDocument(Filled(data)))
        /\ ~IsLabelDocument(data) =>
              Len(results.by_widget) = ExpectedRecords(data)
        /\ "pages" \notin DOMAIN data =>
              /\ results.by_widget = <<>>
              /\ results.by_table = EmptyDict
              /\ results.all_columns = <<>>
              /\ results.all_expressions = <<>>
              /\ results.all_filters = <<>>
        /\ ( \/ "datasets" \notin DOMAIN data
             \/ /\ ~IsLabelDocument(data)
                /\ "queryLines" \notin DOMAIN data.datasets.items[1] )
              => results.dataset_mapping = EmptyDict

\* C12 witness: a call has returned for a document without datasets whose
\* first page has no layout: the only record is that of the second page.
C12_Witness ==
    /\ pc = "returned"
    /\ "datasets" \notin DOMAIN data
    /\ "pages" \in DOMAIN data
    /\ "layout" \notin DOMAIN data.pages.items[1]
    /\ Len(results.by_widget) = 1
    /\ results.by_widget[1].page = <<"P", "2">>
    /\ results.dataset_mapping = EmptyDict

\* C13: a call on a document that holds a scalar in the place of a list
\* (pages, layout, queries, fields, filters, datasets, query lines) ends in
\* an error; it never returns.
C13_ScalarRaises ==
    (ShapeDone /\ HasScalar(data)) => pc = "raised"

\* The part of C13 the code keeps: a number or a non-empty string in the
\* place of a list that is iterated (all but the query lines) ends the call
\* in an error.
C13_IteratedScalarRaises ==
    ( /\ ShapeDone
      /\ SomeIteratedList(data,
            LAMBDA v : v.type = "int" \/ (v.type = "str" /\ v.items # <<>>)) )
        => pc = "raised"

-----------------------------------------------------------------------------
(* C14: the table name of a record.                                        *)

\* The places with an expression whose query reads a dataset that has no
\* entry in the dataset map.
UnmappedPlaces(d, mapping) ==
    {a \in Places(d) :
        /\ HasExpression(d, a)
        /\ PlaceOrigin(d, a)[3] \notin DOMAIN mapping}

\* C14: at every point of a run, the table name of every record is the entry
\* of its dataset id in the dataset map of the results when the map has one,
\* and its dataset id otherwise; two records of one dataset id have one table
\* name; and a query that reads a dataset without entry does not end the
\* run: when it is over, every such place with an expression has its record.
C14_TableNameResolved ==
    Running =>
        /\ \A r \in Range(results.by_widget) :
              r.table_name =
                  IF r.dataset_id \in DOMAIN results.dataset_mapping
                  THEN results.dataset_mapping[r.dataset_id]
                  ELSE r.dataset_id
        /\ \A r1, r2 \in Range(results.by_widget) :
              r1.dataset_id = r2.dataset_id => r1.table_name = r2.table_name
        /\ pc = "done" =>
              Cardinality(UnmappedPlaces(data, results.dataset_mapping)) =
                  Len(SelectSeq(results.by_widget,
                        LAMBDA r : r.dataset_id
                                      \notin DOMAIN results.dataset_mapping))

\* C14 witness: a finished run with a record of a dataset that has an entry,
\* named by the entry, and a record of a dataset without entry, named by its
\* dataset id.
C14_Witness ==
    /\ pc = "done"
    /\ \E r \in Range(results.by_widget) :
          /\ r.dataset_id \in DOMAIN results.dataset_mapping
          /\ r.table_name # r.dataset_id
    /\ \E r \in Range(results.by_widget) :
          /\ r.dataset_id \notin DOMAIN results.dataset_mapping
          /\ r.table_name = Ds2

-----------------------------------------------------------------------------
(* C15: the number of segments of a resolved table name.                   *)

\* The segments of a dotted name: the runs between its dots.
RECURSIVE SegmentsOf(_)
SegmentsOf(name) ==
    LET dots == {i \in 1..Len(name) : name[i] = "."}
    IN  IF dots = {} THEN <<name>>
        ELSE LET first == CHOOSE i \in dots : \A j \in dots : i <= j
             IN  <<SubSeq(name, 1, first - 1)>>
                     \o SegmentsOf(SubSeq(name, first + 1, Len(name)))

\* Every segment is a non-empty run of [A-Za-z0-9_].
WordSegments(name) ==
    \A k \in 1..Len(SegmentsOf(name)) :
        /\ SegmentsOf(name)[k] # <<>>
        /\ \A i \in 1..Len(SegmentsOf(name)[k]) :
              IsWordChar(SegmentsOf(name)[k][i])

\* C15: the table name extract_table_name returns has one, two or three
\* segments, each a non-empty run of [A-Za-z0-9_], also when FROM is followed
\* by an identifier of four or more segments.
C15_AtMostThreeSegments ==
    (pc = "table_done" /\ ret # None) =>
        /\ Len(SegmentsOf(ret)) \in 1..3
        /\ WordSegments(ret)

\* The part of C15 the code keeps: the returned name has one or more
\* segments, each a non-empty run of [A-Za-z0-9_].
C15_WordSegments ==
    (pc = "table_done" /\ ret # None) =>
        /\ Len(SegmentsOf(ret)) >= 1
        /\ WordSegments(ret)

-----------------------------------------------------------------------------
(* SpecLookup: the catalog-columns lookup and the upstream-lineage lookup  *)
(* that column_lens.py generates for the tables of by_table.  Of the SQL   *)
(* text, the model keeps what depends on the tables: the conditions of the *)
(* WHERE clause.                                                           *)

\* name.split('.'), with part the segment read so far
RECURSIVE SplitParts(_, _)
SplitParts(name, part) ==
    IF name = <<>> THEN <<part>>
    ELSE IF Head(name) = "." THEN <<part>> \o SplitParts(Tail(name), <<>>)
    ELSE SplitParts(Tail(name), Append(part, Head(name)))

Split(name) == SplitParts(name, <<>>)

hive_metastore ==
    <<"h", "i", "v", "e", "_", "m", "e", "t", "a", "s", "t", "o", "r", "e">>
default == <<"d", "e", "f", "a", "u", "l", "t">>

\* column_lens.py lines 54-62: the catalog, the schema and the table under
\* which a table name is filed.
FiledUnder(name) ==
    LET parts == Split(name)
    IN  IF Len(parts) = 3 THEN <<parts[1], parts[2], parts[3]>>
        ELSE IF Len(parts) = 2 THEN <<hive_metastore, parts[1], parts[2]>>
        ELSE <<hive_metastore, default, name>>

\* column_lens.py lines 50-76: one condition for every catalog and schema,
\* on the tables filed under them (table_name = one table, or table_name IN
\* the list of them).
SystemTableConditions(by_table) ==
    LET filed == {FiledUnder(T) : T \in DOMAIN by_table}
    IN  {[catalog |-> f[1], schema |-> f[2],
          tables |-> {g[3] : g \in {h \in filed : h[1] = f[1] /\ h[2] = f[2]}}] :
            f \in filed}

\* column_lens.py lines 109-116: one condition for every table name of three
\* parts; the other table names add nothing.
LineageConditions(dashboard_tables) ==
    {[catalog |-> Split(T)[1], schema |-> Split(T)[2], tables |-> {Split(T)[3]}] :
        T \in {x \in dashboard_tables : Len(Split(x)) = 3}}

\* The WHERE clause of generate_system_table_sql (line 78).
generate_system_table_sql(r) ==
    [conditions |-> SystemTableConditions(r.by_table), match_all |-> FALSE]

\* The WHERE clause of generate_lineage_sql (line 118): the conditions, or
\* 1=1 when there is none.
generate_lineage_sql(dashboard_tables) ==
    [conditions |-> LineageConditions(dashboard_tables),
     match_all |-> LineageConditions(dashboard_tables) = {}]

\* The table names the datasets of the checked documents read: of one, two
\* and three parts, two of them in one schema.
TableNames ==
    { <<"t">>, <<"s", ".", "t">>, <<"c", ".", "s", ".", "t">>,
      <<"c", ".", "s", ".", "u">> }

Ds3 == <<"d", "s", "3">>

\* Pages that read ds1; ds1 and ds2; ds1, ds2 and ds3, which is not declared.
LookupTokens ==
    { << Leaf("page", Ds1, "field", FieldBA) >>,
      << Leaf("page", Ds1, "field", FieldBA),
         Leaf("query", Ds2, "filter", FilterA) >>,
      << Leaf("page", Ds1, "field", FieldBA),
         Leaf("query", Ds2, "filter", FilterA),
         Leaf("item", Ds3, "field", FieldLiteral) >> }

LookupDocuments ==
    {[datasets |->
         <<[name |-> Ds1, queryLines |-> <<<<"F", "R", "O", "M", " ">> \o n1>>],
           [name |-> Ds2, queryLines |-> <<<<"f", "r", "o", "m", " ">> \o n2>>]>>,
      pages |-> BuildPages(toks, <<>>)] :
        n1 \in TableNames, n2 \in TableNames, toks \in LookupTokens}

InitLookup ==
    /\ pc = "lookup_call"
    /\ data \in LookupDocuments
    /\ dataset_mapping = build_dataset_mapping(data)
    /\ results = extract_expressions(data)
    /\ query = <<>>
    /\ expression = <<>>
    /\ ret = None
    /\ cursor = <<>>
    /\ consumer = "none"
    /\ table_columns_used = <<>>
    /\ files = <<>>

\* column_lens.py line 32
GenerateSystemTableSql ==
    /\ pc = "lookup_call"
    /\ ret' = generate_system_table_sql(results)
    /\ consumer' = "generate_system_table_sql"
    /\ pc' = "lookup_done"
    /\ UNCHANGED <<query, expression, data, dataset_mapping, results, cursor,
                   table_columns_used, files>>

\* column_lens.py lines 29 and 33
GenerateLineageSql ==
    /\ pc = "lookup_call"
    /\ ret' = generate_lineage_sql(DOMAIN results.by_table)
    /\ consumer' = "generate_lineage_sql"
    /\ pc' = "lookup_done"
    /\ UNCHANGED <<query, expression, data, dataset_mapping, results, cursor,
                   table_columns_used, files>>

NextLookup == GenerateSystemTableSql \/ GenerateLineageSql

SpecLookup == InitLookup /\ [][NextLookup]_vars

-----------------------------------------------------------------------------
(* C16: both lookups are keyed by the tables of by_table.                  *)

\* The catalog, schema and table the claim gives a table name.
ClaimedKey(name) ==
    LET parts == SegmentsOf(name)
    IN  CASE Len(parts) = 3 -> parts
          [] Len(parts) = 2 -> <<hive_metastore>> \o parts
          [] OTHER -> <<hive_metastore, default>> \o parts

\* The WHERE clause holds a condition on the catalog, schema and table of key.
HasConditionOn(where, key) ==
    \E c \in where.conditions :
        c.catalog = key[1] /\ c.schema = key[2] /\ key[3] \in c.tables

\* C16: the WHERE clause of either lookup holds, for every table name of
\* by_table, a condition on its catalog, schema and table: the three parts
\* of the name, or hive_metastore and the two parts, or hive_metastore,
\* default and the name.
C16_LookupsKeyedByTables ==
    pc = "lookup_done" =>
        \A T \in DOMAIN results.by_table : HasConditionOn(ret, ClaimedKey(T))

\* The part of C16 the code keeps: the catalog-columns lookup holds a
\* condition for every table of by_table and no other; the lineage lookup
\* holds one for every table name of three parts and no other.
C16_SystemTablesKeyed ==
    pc = "lookup_done" =>
        LET named == IF consumer = "generate_system_table_sql"
                     THEN DOMAIN results.by_table
                     ELSE {T \in DOMAIN results.by_table :
                              Len(SegmentsOf(T)) = 3}
        IN  /\ \A T \in named : HasConditionOn(ret, ClaimedKey(T))
            /\ \A c \in ret.conditions : \A t \in c.tables :
                  \E T \in named : ClaimedKey(T) = <<c.catalog, c.schema, t>>
            /\ ret.match_all =
                  (consumer = "generate_lineage_sql" /\ named = {})

-----------------------------------------------------------------------------
(* SpecQueries: generate_column_comparison_queries builds the four outputs *)
(* from the results of a finished extract_expressions call, and            *)
(* save_queries_to_files writes them, as analyze_dashboard_columns does.   *)

\* The text a generator returns: the language it is written in, and the part
\* of it that depends on the results.
Text(language, content) == <<language, content>>

\* column_lens.py lines 21-41.  listed is the per-table column lists in the
\* order generate_unused_columns_python happens to list them.
generate_column_comparison_queries(r, output_format, listed) ==
    IF output_format = "sql"
    THEN [table_columns_query |-> Text("sql", generate_system_table_sql(r)),
          lineage_query |->
              Text("sql", generate_lineage_sql(DOMAIN r.by_table)),
          unused_columns_query |->
              Text("sql", SortedColumnsByTable(r.by_table)),
          comparison_analysis |->
              Text("sql", SortedColumnsByTable(r.by_table))]
    ELSE [table_columns_query |-> Text("python", DOMAIN r.by_table),
          lineage_query |-> Text("python", DOMAIN r.by_table),
          unused_columns_query |-> Text("python", listed),
          comparison_analysis |-> None]

\* The keys of the queries dict and the files they are written to, in the
\* order save_queries_to_files writes them.
QueryKeys ==
    <<"table_columns_query", "lineage_query", "unused_columns_query",
      "comparison_analysis">>
FileNames ==
    <<"01_table_columns.sql", "02_lineage.sql", "03_unused_columns.sql",
      "04_comparison_analysis.sql">>

\* column_lens.py lines 512-522 from the k-th file on: open(name, 'w')
\* creates the file and f.write(text) fills it; f.write(None) raises
\* TypeError, which leaves the file empty and ends the call.
RECURSIVE WriteFiles(_, _)
WriteFiles(queries, k) ==
    IF k > Len(QueryKeys) THEN <<>>
    ELSE IF queries[QueryKeys[k]] = None
    THEN <<[name |-> FileNames[k], text |-> <<>>]>>
    ELSE <<[name |-> FileNames[k], text |-> queries[QueryKeys[k]]]>>
             \o WriteFiles(queries, k + 1)

\* save_queries_to_files raises.
WriteRaises(queries) ==
    \E k \in 1..Len(QueryKeys) : queries[QueryKeys[k]] = None

InitQueries ==
    /\ pc = "queries_call"
    /\ data \in LookupDocuments
    /\ dataset_mapping = build_dataset_mapping(data)
    /\ results = extract_expressions(data)
    /\ query = <<>>
    /\ expression = <<>>
    /\ ret = None
    /\ cursor = <<>>
    /\ consumer = "none"
    /\ table_columns_used = <<>>
    /\ files = <<>>

\* column_lens.py line 550
GenerateColumnComparisonQueries ==
    /\ pc = "queries_call"
    /\ \E output_format \in {"sql", "python"} :
          \E listed \in ListedColumnsByTable(results.by_table) :
              ret' = generate_column_comparison_queries(results, output_format,
                                                        listed)
    /\ pc' = "queries_done"
    /\ UNCHANGED <<query, expression, data, dataset_mapping, results, cursor,
                   consumer, table_columns_used, files>>

\* column_lens.py line 553
SaveQueriesToFiles ==
    /\ pc = "queries_done"
    /\ files' = WriteFiles(ret, 1)
    /\ pc' = IF WriteRaises(ret) THEN "save_raised" ELSE "saved"
    /\ UNCHANGED <<query, expression, ret, data, dataset_mapping, results,
                   cursor, consumer, table_columns_used>>

NextQueries == GenerateColumnComparisonQueries \/ SaveQueriesToFiles

SpecQueries == InitQueries /\ [][NextQueries]_vars

-----------------------------------------------------------------------------
(* C17: the four outputs of generate_column_comparison_queries.            *)

QueriesReturned == pc \in {"queries_done", "saved", "save_raised"}

\* C17: for the format sql and for the format python, all four outputs
\* (table columns, lineage, unused columns, comparison analysis) are text,
\* none is left None; and save_queries_to_files, run on them, does not raise
\* and writes the four files, each with its text.
C17_AllFourOutputs ==
    /\ QueriesReturned =>
          \A k \in 1..Len(QueryKeys) : ret[QueryKeys[k]] # None
    /\ pc # "save_raised"
    /\ pc = "saved" =>
          /\ Len(files) = 4
          /\ \A k \in 1..4 :
                files[k] = [name |-> FileNames[k], text |-> ret[QueryKeys[k]]]

\* The part of C17 the code keeps: the format sql gives four texts and four
\* files; the format python gives three texts and leaves comparison_analysis
\* None, and saving them raises after three files, with the fourth empty.
C17_FourOutputsForSql ==
    QueriesReturned =>
        IF ret.table_columns_query[1] = "sql"
        THEN /\ \A k \in 1..4 : ret[QueryKeys[k]] # None
             /\ pc # "save_raised"
             /\ pc = "saved" => (Len(files) = 4 /\ files[4].text # <<>>)
        ELSE /\ \A k \in 1..3 : ret[QueryKeys[k]] # None
             /\ ret.comparison_analysis = None
             /\ pc # "saved"
             /\ pc = "save_raised" => (Len(files) = 4 /\ files[4].text = <<>>)

-----------------------------------------------------------------------------
(* C18: the names a record carries.                                        *)

LabelPage(d) == d.pages.items[1]
LabelWidget(d, i) == LabelPage(d).layout.items[i].widget
LabelQuery(d, i) == LabelWidget(d, i).queries.items[1].query

\* The widget has a title that is not empty.
HasTitle(widget) ==
    /\ "spec" \in DOMAIN widget
    /\ "frame" \in DOMAIN widget.spec
    /\ "title" \in DOMAIN widget.spec.frame
    /\ widget.spec.frame.title # <<>>

\* The label the claim gives a widget.
ClaimedLabel(widget) ==
    IF HasTitle(widget) THEN widget.spec.frame.title
    ELSE IF "name" \in DOMAIN widget THEN widget.name
    ELSE UnknownWidget

\* C18: the widget of a record is the title of its widget when there is one
\* and it is not empty, else the name of the widget, else Unknown Widget; its
\* page is the display name of the page, or Unknown Page without one; its
\* dataset id is the datasetName of the query, or Unknown Dataset without
\* one, and then the record is in the group of by_table under Unknown
\* Dataset, or under the entry of the dataset map for Unknown Dataset when
\* there is one.
C18_RecordNames ==
    (pc = "returned" /\ IsLabelDocument(data)) =>
        /\ Len(results.by_widget) = 2
        /\ \A i \in 1..2 :
              LET r == results.by_widget[i]
                  key == IF UnknownDataset \in DOMAIN results.dataset_mapping
                         THEN results.dataset_mapping[UnknownDataset]
                         ELSE UnknownDataset
              IN  /\ r.widget = ClaimedLabel(LabelWidget(data, i))
                  /\ r.page = IF "displayName" \in DOMAIN LabelPage(data)
                              THEN LabelPage(data).displayName
                              ELSE UnknownPage
                  /\ r.dataset_id =
                        IF "datasetName" \in DOMAIN LabelQuery(data, i)
                        THEN LabelQuery(data, i).datasetName
                        ELSE UnknownDataset
                  /\ "datasetName" \notin DOMAIN LabelQuery(data, i) =>
                        /\ key \in DOMAIN results.by_table
                        /\ r \in Range(results.by_table[key])

\* C18 witness: a call has returned for a page without display name whose
\* first widget has an empty title and no name, and a query without
\* datasetName; its record is labelled Unknown Widget, Unknown Page and
\* Unknown Dataset and grouped under Unknown Dataset; the second widget has a
\* title and no name and is labelled by the title.
C18_Witness ==
    /\ pc = "returned"
    /\ IsLabelDocument(data)
    /\ "name" \notin DOMAIN LabelWidget(data, 1)
    /\ "spec" \in DOMAIN LabelWidget(data, 1)
    /\ "frame" \in DOMAIN LabelWidget(data, 1).spec
    /\ "title" \in DOMAIN LabelWidget(data, 1).spec.frame
    /\ LabelWidget(data, 1).spec.frame.title = <<>>
    /\ results.by_widget[1].widget = UnknownWidget
    /\ results.by_widget[1].page = UnknownPage
    /\ results.by_widget[1].dataset_id = UnknownDataset
    /\ UnknownDataset \in DOMAIN results.by_table
    /\ results.by_widget[2].widget = <<"T", "2">>

=============================================================================
